---------------------------- MODULE Spec2Model ----------------------------
(* Monte Carlo Tree Search player of                                       *)
(* Projects/3_Adversarial Search/my_custom_player.py:                      *)
(* MCTSNode, MCTSSearch and CustomPlayer.get_action.                       *)
EXTENDS Integers, Sequences, FiniteSets, TLC

(***************************************************************************)
(* Bounds of the model.                                                    *)
(***************************************************************************)
\* iterations of the best_action loop explored from an arbitrary root
MaxIter == 6
\* iterations explored from the root of the end-to-end scenario
MaxIterEndToEnd == 3292
\* milliseconds the wall clock may jump between two readings (0, 1 or 2 steps)
ClockStep == 60
\* the least time in milliseconds an iteration takes on an advancing clock
ClockTick == 20

None == "None"

(***************************************************************************)
(* The game-state abstraction (isolation.py is an external collaborator).  *)
(* A small synthetic game, given by tables indexed by the state:           *)
(*   1 -a1-> 2, 1 -a2-> 3       opening, ply 0                             *)
(*   2 -a1-> 4, 2 -a2-> 5       ply 1                                      *)
(*   3 -a3-> 4                  ply 1                                      *)
(*   4 -a1-> 6, 4 -a2-> 7       scenario A: 6 = B (mover wins), 7 = C      *)
(*   5 -a1-> 8, 5 -a2-> 9, 5 -a3-> 10                                      *)
(*   8 -a1-> 11, 8 -a2-> 12;  10 -a2-> 13;  12 -a1-> 14, 12 -a3-> 15       *)
(* 6, 7, 9, 11, 13, 14, 15 are terminal; 9 and 15 are not decisive.        *)
(***************************************************************************)
GameStates == 1..15

PlyCount ==
  <<0, 1, 1, 2, 2, 3, 3, 3, 3, 3, 4, 4, 4, 5, 5>>

ActionTable ==
  << <<"a1", "a2">>, <<"a1", "a2">>, <<"a3">>, <<"a1", "a2">>,
     <<"a1", "a2", "a3">>, <<>>, <<>>, <<"a1", "a2">>, <<>>, <<"a2">>,
     <<>>, <<"a1", "a3">>, <<>>, <<>>, <<>> >>

ResultTable ==
  << <<2, 3>>, <<4, 5>>, <<4>>, <<6, 7>>, <<8, 9, 10>>, <<>>, <<>>,
     <<11, 12>>, <<>>, <<13>>, <<>>, <<14, 15>>, <<>>, <<>>, <<>> >>

\* the player who has won in a terminal state (2: nobody)
WinnerTable ==
  <<2, 2, 2, 2, 2, 0, 1, 2, 2, 2, 1, 2, 0, 1, 2>>

\* locs[0], locs[1]: the board cell of each player
LocsTable ==
  << <<1, 2>>, <<3, 2>>, <<4, 2>>, <<3, 5>>, <<3, 6>>, <<7, 5>>, <<8, 5>>,
     <<9, 6>>, <<10, 6>>, <<11, 6>>, <<9, 12>>, <<9, 13>>, <<11, 14>>,
     <<15, 13>>, <<17, 13>> >>

\* the open cells around locs[0] and around locs[1]
LibertyTable ==
  << <<{3, 4}, {5, 6}>>, <<{7, 8}, {5, 6}>>, <<{7}, {5}>>, <<{7, 8}, {9}>>,
     <<{9, 10, 11}, {12, 13}>>, <<{}, {}>>, <<{8}, {}>>, <<{15}, {12, 13}>>,
     <<{}, {}>>, <<{9, 15}, {14}>>, <<{}, {13}>>, <<{15, 17}, {16}>>,
     <<{}, {16}>>, <<{}, {16}>>, <<{}, {}>> >>

Player(s) == PlyCount[s] % 2

Actions(s) == ActionTable[s]

\* a game with a cycle: a1 in state 12 leads back to state 8
Result_Cyclic(s, a) ==
  LET i == CHOOSE j \in 1..Len(ActionTable[s]) : ActionTable[s][j] = a
  IN  IF s = 12 /\ a = "a1" THEN 8 ELSE ResultTable[s][i]

Result(s, a) ==
  LET i == CHOOSE j \in 1..Len(ActionTable[s]) : ActionTable[s][j] = a
  IN  ResultTable[s][i]

TerminalTest(s) == Len(ActionTable[s]) = 0

Inf == "inf"
NegInf == "-inf"
Finite == "0"

Utility(s, p) ==
  IF ~TerminalTest(s) THEN Finite
  ELSE IF WinnerTable[s] = p THEN Inf
  ELSE IF WinnerTable[s] = 1 - p THEN NegInf
  ELSE Finite

Locs(s) == LocsTable[s]

Liberties(s, loc) ==
  IF loc = LocsTable[s][1] THEN LibertyTable[s][1]
  ELSE IF loc = LocsTable[s][2] THEN LibertyTable[s][2]
  ELSE {}

Range(seq) == {seq[i] : i \in 1..Len(seq)}

(***************************************************************************)
(* Float arithmetic of the selection score (lines 49-50), in fixed point   *)
(* within 32-bit integers: logarithms with 8 decimals, square roots and    *)
(* scores with 6 decimals.                                                 *)
(***************************************************************************)
Ln2 == 69314718

\* floor(a * 10^8 / b) for 0 <= a < b
DivFrac(a, b) ==
  LET q1 == (a * 10000) \div b
      r1 == (a * 10000) % b
  IN  q1 * 10000 + (r1 * 10000) \div b

\* floor(x * y / 10^8) for 0 <= x, y < 10^8
MulFrac(x, y) ==
  LET xh == x \div 10000
      xl == x % 10000
      yh == y \div 10000
      yl == y % 10000
  IN  xh * yh + (xh * yl + xl * yh) \div 10000 + (xl * yl) \div 100000000

\* <<e, d>> with d = n * 2^e the greatest such value not above N
RECURSIVE PowerBelow(_, _, _)
PowerBelow(N, d, e) ==
  IF 2 * d <= N THEN PowerBelow(N, 2 * d, e + 1) ELSE <<e, d>>

\* z + z^3/3 + z^5/5 + ... : t is the current odd power of z
RECURSIVE AtanhSeries(_, _, _)
AtanhSeries(t, z2, k) ==
  IF t = 0 THEN 0 ELSE t \div k + AtanhSeries(MulFrac(t, z2), z2, k + 2)

\* math.log(N / n) * 10^8 for N >= n >= 1
Log(N, n) ==
  LET p == PowerBelow(N, n, 0)
      z == DivFrac(N - p[2], N + p[2])
  IN  p[1] * Ln2 + 2 * AtanhSeries(z, MulFrac(z, z), 1)

\* r * r <= x * 10^4, for r with 6 decimals and x with 8 decimals
SquareAtMost(r, x) ==
  LET rh == r \div 1000
      rl == r % 1000
      mid == 2 * rh * rl
      low == (mid % 1000) * 1000 + rl * rl
      hi == rh * rh + mid \div 1000 + low \div 1000000
      lo == low % 1000000
      xhi == x \div 100
      xlo == (x % 100) * 10000
  IN  hi < xhi \/ (hi = xhi /\ lo <= xlo)

RECURSIVE SqrtSearch(_, _, _)
SqrtSearch(x, lo, hi) ==
  IF lo >= hi THEN lo
  ELSE LET m == (lo + hi + 1) \div 2
       IN  IF SquareAtMost(m, x) THEN SqrtSearch(x, m, hi)
           ELSE SqrtSearch(x, lo, m - 1)

\* math.sqrt(x) * 10^6 for x >= 0 with 8 decimals
Sqrt(x) == SqrtSearch(x, 0, 4700000)

\* (u / n) * 10^6
Quotient(u, n) ==
  LET a == IF u < 0 THEN 0 - u ELSE u
      r == a % n
      q1 == (r * 1000) \div n
      r1 == (r * 1000) % n
      m == (a \div n) * 1000000 + q1 * 1000 + (r1 * 1000) \div n
  IN  IF u < 0 THEN 0 - m ELSE m

\* c * e for c in thousandths and e with 6 decimals
Times(c, e) == (e \div 1000) * c + ((e % 1000) * c) \div 1000


(***************************************************************************)
(* The state of one get_action call.                                       *)
(***************************************************************************)
VARIABLES
  state,            \* the game state passed to get_action
  pc,               \* the statement get_action has reached
  queue,            \* the values passed to self.queue.put, in order
  nodes,            \* the MCTSNode objects, in order of construction; 1 is the root
  node_no,          \* MCTSSearch.node_no
  player_id,        \* MCTSSearch.player_id
  simulations_time, \* best_action's first argument
  c_param,          \* best_action's second argument, in thousandths
  elapsed,          \* (time.time() - start) * 1000 at the last reading
  current_node,     \* tree_policy's current_node
  v,                \* best_action's v
  rollout_state,    \* playout_policy's rollout_state
  reward,           \* best_action's reward
  next_action,      \* get_action's next_action
  exc,              \* the exception get_action has caught
  iters             \* completed iterations of the best_action loop

vars == <<state, pc, queue, nodes, node_no, player_id, simulations_time,
          c_param, elapsed, current_node, v, rollout_state, reward,
          next_action, exc, iters>>

(***************************************************************************)
(* MCTSNode                                                                *)
(***************************************************************************)
MCTSNode(s, a, p) ==
  [state |-> s, parent |-> p, children |-> <<>>, action |-> a,
   visit |-> 0, utility |-> 0, untried_actions |-> Actions(s)]

is_fully_expanded(T, n) == Len(T[n].untried_actions) = 0

is_terminal_node(T, n) == TerminalTest(T[n].state)

heuristic_score(s) ==
  LET own_loc == Locs(s)[Player(s) + 1]
      opp_loc == Locs(s)[(1 - Player(s)) + 1]
  IN  Cardinality(Liberties(s, own_loc)) - Cardinality(Liberties(s, opp_loc))

\* the score of child t of node n, with 6 decimals
Score(T, n, t, c) ==
  Quotient(T[t].utility, T[t].visit)
    + Times(c, Sqrt(2 * Log(T[n].visit, T[t].visit)))

\* the exception the score of child t raises, if any
ScoreError(T, n, t) ==
  IF T[t].visit = 0 THEN "ZeroDivisionError"
  ELSE IF T[n].visit < T[t].visit THEN "ValueError"
  ELSE "none"

MaxScoreInit == -999

\* the loop of best_child over children[i..]
RECURSIVE MaxActions(_, _, _, _, _, _)
MaxActions(T, n, c, i, maxscore, maxactions) ==
  IF i > Len(T[n].children) THEN maxactions
  ELSE LET t == T[n].children[i]
           score == Score(T, n, t, c)
       IN  IF score > maxscore
             THEN MaxActions(T, n, c, i + 1, score, <<t>>)
           ELSE IF score = maxscore
             THEN MaxActions(T, n, c, i + 1, maxscore, Append(maxactions, t))
           ELSE MaxActions(T, n, c, i + 1, maxscore, maxactions)

\* the exception best_child raises on node n, "none" when it returns
BestChildError(T, n, c) ==
  LET bad == {i \in 1..Len(T[n].children) :
                ScoreError(T, n, T[n].children[i]) # "none"}
  IN  IF bad # {}
        THEN ScoreError(T, n,
               T[n].children[CHOOSE i \in bad : \A j \in bad : i <= j])
      ELSE IF MaxActions(T, n, c, 1, MaxScoreInit * 1000000, <<>>) = <<>>
        THEN "ValueError"
      ELSE "none"

\* best_child without lines 59-60: the first of the tied children
best_child_FirstTied(T, n, c) ==
  MaxActions(T, n, c, 1, MaxScoreInit * 1000000, <<>>)[1]

best_child(T, n, c) ==
  LET maxactions == MaxActions(T, n, c, 1, MaxScoreInit * 1000000, <<>>)
      helper_scores == [i \in 1..Len(maxactions) |->
                          heuristic_score(T[maxactions[i]].state)]
      idx == CHOOSE i \in 1..Len(maxactions) :
               /\ \A j \in 1..Len(maxactions) :
                    helper_scores[j] <= helper_scores[i]
               /\ \A j \in 1..(i - 1) : helper_scores[j] < helper_scores[i]
  IN  maxactions[idx]

\* list.remove: the list without the first occurrence of a
Remove(seq, a) ==
  LET i == CHOOSE j \in 1..Len(seq) :
             seq[j] = a /\ \A k \in 1..(j - 1) : seq[k] # a
  IN  SubSeq(seq, 1, i - 1) \o SubSeq(seq, i + 1, Len(seq))

\* expand without line 81: the action stays in untried_actions
expand_KeepUntried(T, n, a) ==
  Append([T EXCEPT ![n].children = Append(@, Len(T) + 1)],
         MCTSNode(Result(T[n].state, a), a, n))

\* the tree after node n has expanded its untried action a
expand(T, n, a) ==
  LET child_node == MCTSNode(Result(T[n].state, a), a, n)
  IN  Append([T EXCEPT ![n].untried_actions = Remove(@, a),
                       ![n].children = Append(@, Len(T) + 1)],
             child_node)

\* playout_policy asking the utility of the player to move
PlayoutResult_Active(s) ==
  IF Utility(s, Player(s)) = Inf THEN 1
  ELSE IF Utility(s, Player(s)) = NegInf THEN -1
  ELSE 0

\* the value playout_policy returns for the terminal state it has reached
PlayoutResult(s) ==
  IF Utility(s, 1 - Player(s)) = Inf THEN 1
  ELSE IF Utility(s, 1 - Player(s)) = NegInf THEN -1
  ELSE 0

\* backpropagate without lines 114-115: the parent is not updated
backpropagate_NoParent(T, n, result) ==
  [T EXCEPT ![n].visit = @ + 1, ![n].utility = @ + result]

\* backpropagate without line 111: no visit is counted
RECURSIVE backpropagate_NoVisit(_, _, _)
backpropagate_NoVisit(T, n, result) ==
  LET T1 == [T EXCEPT ![n].utility = @ + result]
  IN  IF T[n].parent # 0 THEN backpropagate_NoVisit(T1, T[n].parent, 0 - result)
      ELSE T1

\* backpropagate without line 113: the result keeps its sign
RECURSIVE backpropagate_SameSign(_, _, _)
backpropagate_SameSign(T, n, result) ==
  LET T1 == [T EXCEPT ![n].visit = @ + 1, ![n].utility = @ + result]
  IN  IF T[n].parent # 0 THEN backpropagate_SameSign(T1, T[n].parent, result)
      ELSE T1

RECURSIVE backpropagate(_, _, _)
backpropagate(T, n, result) ==
  LET T1 == [T EXCEPT ![n].visit = @ + 1, ![n].utility = @ + result]
  IN  IF T[n].parent # 0 THEN backpropagate(T1, T[n].parent, 0 - result)
      ELSE T1

\* math.ceil(simulations_time * 0.75)
AllowedTime(t) == (3 * t + 3) \div 4

\* line 193 without the terminal test
UseRandomMove_OpeningOnly(s) == PlyCount[s] < 2

\* the opening and terminal states, which get_action answers without a search
UseRandomMove(s) == TerminalTest(s) \/ PlyCount[s] < 2

Truthy(a) == a # None

(***************************************************************************)
(* Initial state: get_action is about to be called on some game state.     *)
(***************************************************************************)
InitLocals ==
  /\ pc = "get_action"
  /\ queue = <<>>
  /\ nodes = <<>>
  /\ node_no = 0
  /\ player_id = 0
  /\ simulations_time = 0
  /\ c_param = 0
  /\ elapsed = 0
  /\ current_node = 0
  /\ v = 0
  /\ rollout_state = 0
  /\ reward = 0
  /\ next_action = None
  /\ exc = "none"
  /\ iters = 0

Init == state \in GameStates /\ InitLocals

(***************************************************************************)
(* CustomPlayer.get_action                                                 *)
(***************************************************************************)
\* lines 193-194: a random legal move
GetActionRandom ==
  /\ pc = "get_action"
  /\ UseRandomMove(state)
  /\ Len(Actions(state)) > 0
  /\ \E a \in Range(Actions(state)) : queue' = Append(queue, a)
  /\ pc' = "done"
  /\ UNCHANGED <<state, nodes, node_no, player_id, simulations_time, c_param,
                 elapsed, current_node, v, rollout_state, reward,
                 next_action, exc, iters>>

\* lines 193-194: random.choice of an empty list raises IndexError
GetActionRandomRaises ==
  /\ pc = "get_action"
  /\ UseRandomMove(state)
  /\ Len(Actions(state)) = 0
  /\ exc' = "IndexError"
  /\ pc' = "except"
  /\ UNCHANGED <<state, queue, nodes, node_no, player_id, simulations_time,
                 c_param, elapsed, current_node, v, rollout_state, reward,
                 next_action, iters>>

\* lines 197-198 and 123-129: the search is constructed and the clock started
GetActionSearch ==
  /\ pc = "get_action"
  /\ ~UseRandomMove(state)
  /\ nodes' = <<MCTSNode(state, None, 0)>>
  /\ player_id' = Player(state)
  /\ node_no' = 1
  /\ simulations_time' = 150
  /\ c_param' = 500
  /\ elapsed' = 0
  /\ pc' = "while"
  /\ UNCHANGED <<state, queue, current_node, v, rollout_state, reward,
                 next_action, exc, iters>>

(***************************************************************************)
(* MCTSSearch.best_action                                                  *)
(***************************************************************************)
\* line 131: the clock is read; the loop goes on while the time allows
WhileTest(cap) ==
  /\ pc = "while"
  /\ \E d \in {0, ClockStep, 2 * ClockStep} :
       LET now == IF elapsed + d > 2 * ClockStep THEN 2 * ClockStep
                  ELSE elapsed + d
       IN  /\ iters >= cap => now > AllowedTime(simulations_time)
           /\ elapsed' = now
           /\ IF now <= AllowedTime(simulations_time)
                THEN pc' = "tree_policy" /\ current_node' = 1
                ELSE pc' = "best_child" /\ UNCHANGED current_node
  /\ UNCHANGED <<state, queue, nodes, node_no, player_id, simulations_time,
                 c_param, v, rollout_state, reward, next_action, exc, iters>>

\* tree_policy without line 144: node_no is not counted up
TreePolicyExpand_NoCount ==
  /\ pc = "tree_policy"
  /\ ~is_terminal_node(nodes, current_node)
  /\ ~is_fully_expanded(nodes, current_node)
  /\ \E a \in Range(nodes[current_node].untried_actions) :
       nodes' = expand(nodes, current_node, a)
  /\ v' = Len(nodes) + 1
  /\ rollout_state' = nodes'[Len(nodes) + 1].state
  /\ pc' = "playout"
  /\ UNCHANGED <<state, queue, node_no, player_id, simulations_time, c_param,
                 elapsed, current_node, reward, next_action, exc, iters>>

\* lines 142-145: the current node is expanded and the child returned
TreePolicyExpand ==
  /\ pc = "tree_policy"
  /\ ~is_terminal_node(nodes, current_node)
  /\ ~is_fully_expanded(nodes, current_node)
  /\ \E a \in Range(nodes[current_node].untried_actions) :
       nodes' = expand(nodes, current_node, a)
  /\ node_no' = node_no + 1
  /\ v' = Len(nodes) + 1
  /\ rollout_state' = nodes'[Len(nodes) + 1].state
  /\ pc' = "playout"
  /\ UNCHANGED <<state, queue, player_id, simulations_time, c_param, elapsed,
                 current_node, reward, next_action, exc, iters>>

\* lines 146-147: the descent goes on to the best child
TreePolicyDescend ==
  /\ pc = "tree_policy"
  /\ ~is_terminal_node(nodes, current_node)
  /\ is_fully_expanded(nodes, current_node)
  /\ IF BestChildError(nodes, current_node, 500) = "none"
       THEN /\ current_node' = best_child(nodes, current_node, 500)
            /\ UNCHANGED <<pc, exc>>
       ELSE /\ exc' = BestChildError(nodes, current_node, 500)
            /\ pc' = "except"
            /\ UNCHANGED current_node
  /\ UNCHANGED <<state, queue, nodes, node_no, player_id, simulations_time,
                 c_param, elapsed, v, rollout_state, reward, next_action,
                 iters>>

\* lines 141 and 148: a terminal node is returned
TreePolicyTerminal ==
  /\ pc = "tree_policy"
  /\ is_terminal_node(nodes, current_node)
  /\ v' = current_node
  /\ rollout_state' = nodes[current_node].state
  /\ pc' = "playout"
  /\ UNCHANGED <<state, queue, nodes, node_no, player_id, simulations_time,
                 c_param, elapsed, current_node, reward, next_action, exc,
                 iters>>

\* a playout that records each state it visits as a child of v
PlayoutStep_Recording ==
  /\ pc = "playout"
  /\ ~TerminalTest(rollout_state)
  /\ \E a \in Range(Actions(rollout_state)) :
       /\ rollout_state' = Result(rollout_state, a)
       /\ nodes' = Append([nodes EXCEPT ![v].children =
                                          Append(@, Len(nodes) + 1)],
                          MCTSNode(Result(rollout_state, a), a, v))
  /\ UNCHANGED <<state, pc, queue, node_no, player_id, simulations_time,
                 c_param, elapsed, current_node, v, reward, next_action, exc,
                 iters>>

\* lines 96-98: one random move of the playout
PlayoutStep ==
  /\ pc = "playout"
  /\ ~TerminalTest(rollout_state)
  /\ \E a \in Range(Actions(rollout_state)) :
       rollout_state' = Result(rollout_state, a)
  /\ UNCHANGED <<state, pc, queue, nodes, node_no, player_id,
                 simulations_time, c_param, elapsed, current_node, v, reward,
                 next_action, exc, iters>>

\* lines 100-108: the playout has reached a terminal state
PlayoutReturn ==
  /\ pc = "playout"
  /\ TerminalTest(rollout_state)
  /\ reward' = PlayoutResult(rollout_state)
  /\ pc' = "backpropagate"
  /\ UNCHANGED <<state, queue, nodes, node_no, player_id, simulations_time,
                 c_param, elapsed, current_node, v, rollout_state,
                 next_action, exc, iters>>

\* line 134: v.backpropagate(reward), which ends the iteration
Backpropagate ==
  /\ pc = "backpropagate"
  /\ nodes' = backpropagate(nodes, v, reward)
  /\ iters' = iters + 1
  /\ pc' = "while"
  /\ UNCHANGED <<state, queue, node_no, player_id, simulations_time, c_param,
                 elapsed, current_node, v, rollout_state, reward,
                 next_action, exc>>

\* line 136 reading the action of the root
ReturnedAction_Root(T, n) == T[1].action

\* the action best_action returns, given the best child of the root
ReturnedAction(T, n) == T[n].action

\* lines 135-137: the action of the best child of the root is returned
BestActionReturn ==
  /\ pc = "best_child"
  /\ BestChildError(nodes, 1, c_param) = "none"
  /\ next_action' = ReturnedAction(nodes, best_child(nodes, 1, c_param))
  /\ pc' = "return"
  /\ UNCHANGED <<state, queue, nodes, node_no, player_id, simulations_time,
                 c_param, elapsed, current_node, v, rollout_state, reward,
                 exc, iters>>

\* line 135: best_child raises, line 60 on a root without children
BestActionRaises ==
  /\ pc = "best_child"
  /\ BestChildError(nodes, 1, c_param) # "none"
  /\ exc' = BestChildError(nodes, 1, c_param)
  /\ pc' = "except"
  /\ UNCHANGED <<state, queue, nodes, node_no, player_id, simulations_time,
                 c_param, elapsed, current_node, v, rollout_state, reward,
                 next_action, iters>>

(***************************************************************************)
(* CustomPlayer.get_action, after the search                               *)
(***************************************************************************)
\* lines 199-204
GetActionPut ==
  /\ pc = "return"
  /\ IF Truthy(next_action)
       THEN queue' = Append(queue, next_action)
     ELSE IF Len(Actions(state)) > 0
       THEN \E a \in Range(Actions(state)) : queue' = Append(queue, a)
     ELSE queue' = Append(queue, None)
  /\ pc' = "done"
  /\ UNCHANGED <<state, nodes, node_no, player_id, simulations_time, c_param,
                 elapsed, current_node, v, rollout_state, reward,
                 next_action, exc, iters>>

\* lines 206-207: the exception is printed and get_action returns
GetActionExcept ==
  /\ pc = "except"
  /\ pc' = "done"
  /\ UNCHANGED <<state, queue, nodes, node_no, player_id, simulations_time,
                 c_param, elapsed, current_node, v, rollout_state, reward,
                 next_action, exc, iters>>

Next ==
  \/ GetActionRandom
  \/ GetActionRandomRaises
  \/ GetActionSearch
  \/ WhileTest(MaxIter)
  \/ TreePolicyExpand
  \/ TreePolicyDescend
  \/ TreePolicyTerminal
  \/ PlayoutStep
  \/ PlayoutReturn
  \/ Backpropagate
  \/ BestActionReturn
  \/ BestActionRaises
  \/ GetActionPut
  \/ GetActionExcept

Spec == Init /\ [][Next]_vars

(***************************************************************************)
(* The end-to-end scenario: get_action on state 4 (A), whose two actions   *)
(* lead to the terminal states 6 (B) and 7 (C).                            *)
(***************************************************************************)
InitEndToEnd == state = 4 /\ InitLocals

NextEndToEnd ==
  \/ GetActionSearch
  \/ WhileTest(MaxIterEndToEnd)
  \/ TreePolicyExpand
  \/ TreePolicyDescend
  \/ TreePolicyTerminal
  \/ PlayoutReturn
  \/ Backpropagate
  \/ BestActionReturn
  \/ BestActionRaises
  \/ GetActionPut
  \/ GetActionExcept

SpecEndToEnd == InitEndToEnd /\ [][NextEndToEnd]_vars

(***************************************************************************)
(* The engine alone: a caller other than get_action builds                 *)
(* MCTSSearch(MCTSNode(state)) on any state and calls best_action with the *)
(* reference budget and an exploration weight of 0 or 0.5; best_action     *)
(* returns ("return") or raises to that caller ("except").                 *)
(***************************************************************************)
InitEngine ==
  /\ state \in GameStates
  /\ pc = "best_action"
  /\ queue = <<>>
  /\ nodes = <<>>
  /\ node_no = 0
  /\ player_id = 0
  /\ simulations_time = 0
  /\ c_param = 0
  /\ elapsed = 0
  /\ current_node = 0
  /\ v = 0
  /\ rollout_state = 0
  /\ reward = 0
  /\ next_action = None
  /\ exc = "none"
  /\ iters = 0

\* lines 21-35, 123-129: the tree is built and best_action entered
BestActionCall ==
  /\ pc = "best_action"
  /\ nodes' = <<MCTSNode(state, None, 0)>>
  /\ player_id' = Player(state)
  /\ node_no' = 1
  /\ simulations_time' = 150
  /\ c_param' \in {0, 500}
  /\ elapsed' = 0
  /\ pc' = "while"
  /\ UNCHANGED <<state, queue, current_node, v, rollout_state, reward,
                 next_action, exc, iters>>

NextEngine ==
  \/ BestActionCall
  \/ WhileTest(MaxIter)
  \/ TreePolicyExpand
  \/ TreePolicyDescend
  \/ TreePolicyTerminal
  \/ PlayoutStep
  \/ PlayoutReturn
  \/ Backpropagate
  \/ BestActionReturn
  \/ BestActionRaises

SpecEngine == InitEngine /\ [][NextEngine]_vars

(***************************************************************************)
(* The engine on a clock that advances between any two readings: every     *)
(* iteration takes at least ClockTick milliseconds.  The program is        *)
(* sequential, so its next statement is always executed (weak fairness).   *)
(***************************************************************************)
\* line 131 with time passing between two readings of the clock
WhileTestAdvancing ==
  /\ pc = "while"
  /\ \E d \in {ClockTick, 2 * ClockStep} :
       LET now == IF elapsed + d > 2 * ClockStep THEN 2 * ClockStep
                  ELSE elapsed + d
       IN  /\ elapsed' = now
           /\ IF now <= AllowedTime(simulations_time)
                THEN pc' = "tree_policy" /\ current_node' = 1
                ELSE pc' = "best_child" /\ UNCHANGED current_node
  /\ UNCHANGED <<state, queue, nodes, node_no, player_id, simulations_time,
                 c_param, v, rollout_state, reward, next_action, exc, iters>>

NextEngineFair ==
  \/ BestActionCall
  \/ WhileTestAdvancing
  \/ TreePolicyExpand
  \/ TreePolicyDescend
  \/ TreePolicyTerminal
  \/ PlayoutStep
  \/ PlayoutReturn
  \/ Backpropagate
  \/ BestActionReturn
  \/ BestActionRaises

\* the steps that call best_child: line 147 of the descent and line 135
SelectStep == TreePolicyDescend \/ BestActionReturn \/ BestActionRaises

\* the steps that do not
PlainStep ==
  \/ BestActionCall
  \/ WhileTestAdvancing
  \/ TreePolicyExpand
  \/ TreePolicyTerminal
  \/ PlayoutStep
  \/ PlayoutReturn
  \/ Backpropagate

\* the guards of the three steps of SelectStep: ENABLED <<SelectStep>>_vars
Selecting ==
  \/ pc = "best_child"
  \/ /\ pc = "tree_policy"
     /\ ~is_terminal_node(nodes, current_node)
     /\ is_fully_expanded(nodes, current_node)

\* the interpreter keeps executing the call: weak fairness of the steps, with
\* WF_vars(SelectStep) written out by its definition, Selecting standing for
\* ENABLED <<SelectStep>>_vars
SpecEngineFair ==
  /\ InitEngine
  /\ [][NextEngineFair]_vars
  /\ WF_vars(PlainStep)
  /\ ([]<>(~Selecting) \/ []<><<SelectStep>>_vars)

(***************************************************************************)
(* Properties                                                              *)
(***************************************************************************)
Searched == nodes # <<>>

\* the best_action loop has ended and line 135 has been executed
AfterLoop == Searched /\ pc \in {"return", "except", "done"}

ChildActions(n) ==
  {nodes[nodes[n].children[i]].action : i \in 1..Len(nodes[n].children)}

RECURSIVE ParentChain(_)
ParentChain(n) ==
  IF nodes[n].parent = 0 THEN {n} ELSE {n} \cup ParentChain(nodes[n].parent)

RECURSIVE Depth(_)
Depth(n) == IF nodes[n].parent = 0 THEN 0 ELSE 1 + Depth(nodes[n].parent)

\* the states a sequence of legal actions leads to from s, s included
RECURSIVE ReachableStates(_)
ReachableStates(s) ==
  {s} \cup UNION {ReachableStates(Result(s, a)) : a \in Range(Actions(s))}

\* C1: when the loop of best_action ends with a root without children,
\* best_action returns None and raises nothing.
C1_NoChildrenReturnsNone ==
  (AfterLoop /\ Len(nodes[1].children) = 0)
    => (exc = "none" /\ next_action = None)

\* C2: when get_action returns, queue.put has been called at least once, with
\* a legal action of the state when there is one and with None otherwise.
C2_AlwaysPuts ==
  pc = "done" =>
    /\ Len(queue) >= 1
    /\ \A i \in 1..Len(queue) :
         IF Len(Actions(state)) > 0 THEN queue[i] \in Range(Actions(state))
         ELSE queue[i] = None

\* C3: when the loop of best_action ends with a root that has children,
\* best_action returns the action of one of them, which is a legal action of
\* the root state.
C3_ReturnsChildAction ==
  (AfterLoop /\ Len(nodes[1].children) > 0) =>
    /\ exc = "none"
    /\ next_action \in ChildActions(1)
    /\ next_action \in Range(Actions(state))

C3_Witness ==
  /\ pc = "return"
  /\ Len(nodes[1].children) = 3
  /\ next_action \in Range(Actions(state))

\* C4: in the end-to-end scenario, once both actions of A are expanded,
\* best_action returns a1, the action that leads to B.
C4_EndToEnd ==
  (state = 4 /\ pc = "return" /\ Len(nodes[1].children) = 2)
    => next_action = "a1"

\* C5: the outcome added to the node the playout starts from, a node with a
\* parent, is +1 exactly when the simulated terminal state is a win for the
\* player who moved into that node, and -1 exactly when it is a loss for
\* that player.
C5_ParentPerspective ==
  (pc = "backpropagate" /\ nodes[v].parent # 0) =>
    LET mover == 1 - Player(nodes[v].state)
    IN  /\ reward = 1 <=> Utility(rollout_state, mover) = Inf
        /\ reward = -1 <=> Utility(rollout_state, mover) = NegInf

\* C6: the visit count of the root is the number of completed iterations, and
\* a step changes visit counts only in backpropagate, where exactly the nodes
\* on the parent chain of v gain one visit; no other node's visit or utility
\* changes.
C6_VisitConservation ==
  /\ [](Searched => nodes[1].visit = iters)
  /\ [][\A n \in 1..Len(nodes) :
          IF pc = "backpropagate" /\ n \in ParentChain(v)
            THEN nodes'[n].visit = nodes[n].visit + 1
            ELSE /\ nodes'[n].visit = nodes[n].visit
                 /\ nodes'[n].utility = nodes[n].utility]_vars

C6_Witness ==
  /\ pc = "while"
  /\ iters = 4
  /\ Depth(v) = 2
  /\ nodes[v].visit = 1
  /\ nodes[nodes[v].parent].visit = 2

\* C7: backpropagate(reward) from v adds reward to the utility of the nodes
\* on the parent chain of v that are an even number of levels above v, and
\* -reward to those an odd number of levels above, the root included.
C7_SignAlternation ==
  [][pc = "backpropagate" =>
       \A n \in ParentChain(v) :
         nodes'[n].utility = nodes[n].utility
           + (IF (Depth(v) - Depth(n)) % 2 = 0 THEN reward ELSE 0 - reward)]_vars

C7_Witness ==
  /\ pc = "while"
  /\ v # 0
  /\ Depth(v) = 2
  /\ reward = 1
  /\ nodes[v].utility = 1
  /\ nodes[nodes[v].parent].utility = 0
  /\ nodes[nodes[v].parent].visit = 2

\* C8, in every state
ExpansionComplete ==
  \A n \in 1..Len(nodes) :
    LET ch == nodes[n].children
        un == nodes[n].untried_actions
        legal == Actions(nodes[n].state)
    IN  /\ \A i, j \in 1..Len(ch) :
             nodes[ch[i]].action = nodes[ch[j]].action => i = j
        /\ \A i, j \in 1..Len(un) : un[i] = un[j] => i = j
        /\ ChildActions(n) \cap Range(un) = {}
        /\ ChildActions(n) \cup Range(un) = Range(legal)
        /\ Len(ch) <= Len(legal)
        /\ is_fully_expanded(nodes, n) => Len(ch) = Len(legal)

\* C8: the actions of a node's children are pairwise distinct, disjoint from
\* untried_actions and with them exactly the legal actions of the node's state;
\* a node that is fully expanded stays fully expanded.
C8_ExpansionCompleteness ==
  /\ []ExpansionComplete
  /\ [][\A n \in 1..Len(nodes) :
          Len(nodes[n].untried_actions) = 0
            => Len(nodes'[n].untried_actions) = 0]_vars

C8_Witness ==
  \E n \in 1..Len(nodes) :
    /\ Len(nodes[n].untried_actions) = 0
    /\ Len(nodes[n].children) = 3

\* C9: the value playout_policy returns is +1, -1 or 0 as the utility of the
\* terminal state it has reached, for the player who is not to move there, is
\* +inf, -inf or anything else; that state is reached from the node's state
\* by legal actions and is the node's state when that is terminal.
C9_PlayoutOutcome ==
  pc = "backpropagate" =>
    LET u == Utility(rollout_state, 1 - Player(rollout_state))
    IN  /\ reward \in {-1, 0, 1}
        /\ Len(Actions(rollout_state)) = 0
        /\ rollout_state \in ReachableStates(nodes[v].state)
        /\ Len(Actions(nodes[v].state)) = 0 => rollout_state = nodes[v].state
        /\ reward = 1 <=> u = Inf
        /\ reward = -1 <=> u = NegInf

C9_Witness ==
  /\ pc = "backpropagate"
  /\ rollout_state # nodes[v].state
  /\ reward = -1

Children(n) == Range(nodes[n].children)

\* the place of child t in n.children
Pos(n, t) ==
  CHOOSE i \in 1..Len(nodes[n].children) : nodes[n].children[i] = t

\* the children of n whose selection score is the greatest
Tied(n, c) ==
  {t \in Children(n) :
     \A u \in Children(n) : Score(nodes, n, u, c) <= Score(nodes, n, t, c)}

Mobility(t) == heuristic_score(nodes[t].state)

\* t is the child of n the tie-break rule names
IsBest(n, t, c) ==
  /\ t \in Tied(n, c)
  /\ \A u \in Tied(n, c) :
       /\ Mobility(u) <= Mobility(t)
       /\ Mobility(u) = Mobility(t) => Pos(n, t) <= Pos(n, u)

\* C11: the child best_child returns, in tree_policy and at the end of
\* best_action, has the greatest selection score, the greatest heuristic
\* score among the children with that selection score, and is the earliest
\* of those in children order.
C11_TieBreak ==
  /\ (pc = "tree_policy" /\ current_node # 1)
       => IsBest(nodes[current_node].parent, current_node, 500)
  /\ pc = "return"
       => \E t \in Children(1) :
            nodes[t].action = next_action /\ IsBest(1, t, c_param)

C11_Witness ==
  /\ pc = "tree_policy"
  /\ current_node # 1
  /\ \E u \in Tied(nodes[current_node].parent, 500) :
       /\ Pos(nodes[current_node].parent, u)
            < Pos(nodes[current_node].parent, current_node)
       /\ Mobility(u) < Mobility(current_node)

\* own liberties minus opponent liberties in the state of child t, for the
\* player to move at n
ChooserMobility(n, t) ==
  LET p == Player(nodes[n].state)
      s == nodes[t].state
  IN  Cardinality(Liberties(s, Locs(s)[p + 1]))
        - Cardinality(Liberties(s, Locs(s)[(1 - p) + 1]))

\* C12: among the children tied on the selection score, best_child on n
\* returns one in whose state the player to move at n has the greatest
\* number of own liberties minus opponent liberties.
C12_ChooserMobility ==
  /\ (pc = "tree_policy" /\ current_node # 1)
       => \A u \in Tied(nodes[current_node].parent, 500) :
            ChooserMobility(nodes[current_node].parent, u)
              <= ChooserMobility(nodes[current_node].parent, current_node)
  /\ pc = "return"
       => \E t \in Children(1) :
            /\ nodes[t].action = next_action
            /\ \A u \in Tied(1, c_param) :
                 ChooserMobility(1, u) <= ChooserMobility(1, t)

\* the preconditions of the selection formula on node n
SelectionReady(n) ==
  /\ Len(nodes[n].children) >= 1
  /\ \A t \in Children(n) :
       nodes[t].visit >= 1 /\ nodes[n].visit >= nodes[t].visit

\* C13: at every best_child call of tree_policy, and at the best_child call
\* that ends best_action after at least one completed iteration, the node has
\* a child, every child has been visited and no child has more visits than
\* the node; expand is called only with an untried action left.
C13_Preconditions ==
  /\ (/\ pc = "tree_policy"
      /\ Len(Actions(nodes[current_node].state)) > 0
      /\ Len(nodes[current_node].untried_actions) = 0)
       => SelectionReady(current_node)
  /\ (pc = "best_child" /\ iters >= 1) => SelectionReady(1)
  /\ (/\ pc = "tree_policy"
      /\ Len(Actions(nodes[current_node].state)) > 0
      /\ ~is_fully_expanded(nodes, current_node))
       => Len(nodes[current_node].untried_actions) > 0

RECURSIVE SumVisits(_, _)
SumVisits(n, i) ==
  IF i > Len(nodes[n].children) THEN 0
  ELSE nodes[nodes[n].children[i]].visit + SumVisits(n, i + 1)

\* C14: between two iterations, the visit count of every node is at least
\* the sum of its children's; it is that sum for a root with a non-terminal
\* state and that sum plus one for every other node with a non-terminal state.
C14_VisitSums ==
  pc = "while" =>
    \A n \in 1..Len(nodes) :
      /\ nodes[n].visit >= SumVisits(n, 1)
      /\ Len(Actions(nodes[n].state)) > 0 =>
           nodes[n].visit
             = (IF nodes[n].parent = 0 THEN 0 ELSE 1) + SumVisits(n, 1)

C14_Witness ==
  /\ pc = "while"
  /\ \E n \in 2..Len(nodes) :
       /\ Len(nodes[n].children) = 2
       /\ nodes[n].visit = 3

\* C15: a step of playout_policy leaves every node, and the number of nodes,
\* as it was.
C15_PlayoutTransient ==
  [][pc = "playout" => nodes' = nodes /\ node_no' = node_no]_vars

C15_Witness ==
  /\ pc = "backpropagate"
  /\ PlyCount[rollout_state] >= PlyCount[nodes[v].state] + 2
  /\ \A n \in 1..Len(nodes) : nodes[n].state # rollout_state
  /\ nodes[v].visit = 0
  /\ nodes[v].children = <<>>

\* C17: every node has -visit <= utility <= visit; in every tree (each
\* arises after an expansion or a backpropagation) where the selection
\* formula is defined, every child's score is above -999 and best_child finds
\* at least one child of greatest score.
C17_UtilityBounds ==
  \A n \in 1..Len(nodes) :
    /\ 0 - nodes[n].visit <= nodes[n].utility
    /\ nodes[n].utility <= nodes[n].visit
    /\ (/\ pc \in {"while", "playout"}
        /\ Len(nodes[n].children) >= 1
        /\ \A t \in Children(n) : ScoreError(nodes, n, t) = "none")
         => \A c \in {500, c_param} :
              /\ \A t \in Children(n) : Score(nodes, n, t, c) > -999000000
              /\ Len(MaxActions(nodes, n, c, 1, MaxScoreInit * 1000000, <<>>))
                   >= 1

C17_Witness ==
  /\ pc = "while"
  /\ \E n \in 1..Len(nodes) :
       /\ Len(nodes[n].children) >= 2
       /\ \A t \in Children(n) :
            nodes[t].visit >= 1 /\ nodes[t].utility = 0 - nodes[t].visit

\* C18: node_no is the number of nodes; an iteration adds at most one node;
\* a node with a terminal state has no children; the node tree_policy returns
\* has a terminal state or is a new, unvisited and childless last child of the
\* node the descent stopped at, all of whose ancestors are fully expanded.
C18_OneNodePerIteration ==
  /\ Searched => node_no = Len(nodes)
  /\ Len(nodes)
       <= 1 + iters + (IF pc \in {"playout", "backpropagate"} THEN 1 ELSE 0)
  /\ \A n \in 1..Len(nodes) :
       Len(Actions(nodes[n].state)) = 0 => nodes[n].children = <<>>
  /\ pc \in {"playout", "backpropagate"} =>
       \/ Len(Actions(nodes[v].state)) = 0 /\ v = current_node
       \/ /\ v = Len(nodes)
          /\ nodes[v].visit = 0
          /\ nodes[v].children = <<>>
          /\ nodes[v].parent = current_node
          /\ nodes[current_node].children[Len(nodes[current_node].children)]
               = v
          /\ \A a \in ParentChain(current_node) \ {current_node} :
               Len(nodes[a].untried_actions) = 0

C18_Witness ==
  /\ pc = "playout"
  /\ v = Len(nodes)
  /\ Depth(v) = 2
  /\ Len(Actions(nodes[v].state)) > 0
  /\ iters = 5

\* C16: on an advancing clock every iteration that starts is completed
\* (tree_policy returns, the playout reaches a terminal state, backpropagate
\* reaches the root) and the loop of best_action is left, after which
\* best_action returns or raises.
C16_Termination ==
  /\ (pc = "tree_policy") ~> (pc = "while")
  /\ <>(pc = "best_child")
  /\ <>(pc \in {"return", "except"})

C16_Witness ==
  /\ pc = "best_child"
  /\ Len(Actions(state)) = 0
  /\ iters >= 2
  /\ nodes[1].visit = iters

=============================================================================
